---- MODULE Spec2Model ----
(***************************************************************************)
(* Model of pixel_rpg_ui.py: the main loop of the pixel RPG menu, its      *)
(* screen state machine, the two settings sliders and the typed name.      *)
(*                                                                         *)
(* Slider values are Python floats (IEEE-754 binary64).  A float v with    *)
(* |v| < 2 that is a multiple of 2^-57 is modelled exactly as the record   *)
(* [neg, hi, lo] with |v| = (hi * 2^29 + lo) * 2^-57; every float the      *)
(* sliders can hold is of that form (see FloatAdd).  Characters are code   *)
(* points, strings are sequences of code points.                           *)
(***************************************************************************)
EXTENDS Integers, Sequences, FiniteSets, TLC

(***************************************************************************)
(* Bounds of the model (not program constants).                            *)
(***************************************************************************)
\* most events one call of pygame.event.get() returns
MaxQueue == 2
\* name positions at which the player types any character of the keyboard;
\* beyond them the player types the filler character only
MaxFree == 2

(***************************************************************************)
(* binary64 arithmetic                                                     *)
(***************************************************************************)
\* limb base 2^29: magnitudes below 2^58 units fit two limbs of TLC integers
Base == 536870912
\* 2^24: hi >= Pow24 iff the magnitude is >= 2^53 units (needs rounding)
Pow24 == 16777216

Mag(hi, lo) == [neg |-> FALSE, hi |-> hi, lo |-> lo]

RECURSIVE Pow2(_)
Pow2(n) == IF n = 0 THEN 1 ELSE 2 * Pow2(n - 1)

\* bits to drop so that 53 significant bits remain (0 when the value is exact)
DropBits(hi) ==
    IF hi < Pow24 THEN 0
    ELSE IF hi < 2 * Pow24 THEN 1
    ELSE IF hi < 4 * Pow24 THEN 2
    ELSE IF hi < 8 * Pow24 THEN 3
    ELSE IF hi < 16 * Pow24 THEN 4
    ELSE 5

\* round-to-nearest, ties-to-even, of the exact magnitude hi*Base+lo
RoundNearestEven(hi, lo) ==
    LET k    == DropBits(hi)
        unit == Pow2(k)
        q    == lo \div unit
        r    == lo % unit
        up   == k > 0 /\ (2 * r > unit \/ (2 * r = unit /\ q % 2 = 1))
        lo2  == (IF up THEN q + 1 ELSE q) * unit
    IN  IF lo2 >= Base THEN <<hi + 1, lo2 - Base>> ELSE <<hi, lo2>>

MagLess(a, b) == a.hi < b.hi \/ (a.hi = b.hi /\ a.lo < b.lo)

IsZero(a) == a.hi = 0 /\ a.lo = 0

\* a < b on floats
FloatLess(a, b) ==
    IF IsZero(a) /\ IsZero(b) THEN FALSE
    ELSE IF a.neg /\ ~b.neg THEN TRUE
    ELSE IF ~a.neg /\ b.neg THEN FALSE
    ELSE IF a.neg THEN MagLess(b, a)
    ELSE MagLess(a, b)

FloatNeg(a) == [a EXCEPT !.neg = ~a.neg]

\* a + b in binary64: the exact sum of two multiples of 2^-57 is a multiple
\* of 2^-57, rounded to 53 significant bits
FloatAdd(a, b) ==
    IF a.neg = b.neg
    THEN LET lo == a.lo + b.lo
             c  == IF lo >= Base THEN 1 ELSE 0
             r  == RoundNearestEven(a.hi + b.hi + c, lo - c * Base)
         IN  [neg |-> a.neg, hi |-> r[1], lo |-> r[2]]
    ELSE LET big   == IF MagLess(a, b) THEN b ELSE a
             small == IF MagLess(a, b) THEN a ELSE b
             bw    == IF big.lo < small.lo THEN 1 ELSE 0
             r     == RoundNearestEven(big.hi - small.hi - bw,
                                       big.lo - small.lo + bw * Base)
         IN  IF IsZero([hi |-> r[1], lo |-> r[2]])
             THEN Mag(0, 0)
             ELSE [neg |-> big.neg, hi |-> r[1], lo |-> r[2]]

\* Python's min(a, b) and max(a, b): the first argument unless the second
\* is strictly smaller (greater)
PyMin(a, b) == IF FloatLess(b, a) THEN b ELSE a
PyMax(a, b) == IF FloatLess(a, b) THEN b ELSE a

\* the first n bits after the binary point of r/den (0 <= r < den), then
\* the remainder
RECURSIVE FracBits(_, _, _)
FracBits(r, den, n) ==
    IF n = 0 THEN <<r>>
    ELSE LET d == 2 * r
             b == IF d >= den THEN 1 ELSE 0
         IN  <<b>> \o FracBits(d - b * den, den, n - 1)

RECURSIVE BitsValue(_, _, _)
BitsValue(bits, from, to) ==
    IF from > to THEN 0
    ELSE 2 * BitsValue(bits, from, to - 1) + bits[to]

RECURSIVE FirstOne(_, _)
FirstOne(bits, i) == IF bits[i] = 1 THEN i ELSE FirstOne(bits, i + 1)

\* the float a decimal literal num/den (0 <= num/den <= 1, 2^-5 <= num/den
\* when not 0) denotes: the binary64 nearest to the quotient
Literal(num, den) ==
    IF num = 0 THEN Mag(0, 0)
    ELSE IF num = den THEN Mag(Base \div 2, 0)
    ELSE LET bits == FracBits(num, den, 58)
             p    == FirstOne(bits, 1)
             last == p + 52
             rest == bits[59] # 0
                     \/ \E i \in (last + 2)..58 : bits[i] = 1
             odd  == bits[last] = 1
             up   == bits[last + 1] = 1 /\ (rest \/ odd)
             hi   == BitsValue(bits, 1, 28)
             lo   == BitsValue([i \in 1..29 |-> IF i + 28 <= last
                                                THEN bits[i + 28] ELSE 0],
                               1, 29)
             inc  == IF up THEN Pow2(57 - last) ELSE 0
         IN  IF lo + inc >= Base THEN Mag(hi + 1, lo + inc - Base)
             ELSE Mag(hi, lo + inc)

(***************************************************************************)
(* Program constants and the initial values of the module-level globals    *)
(***************************************************************************)
TITLE == 0
SETTINGS == 1
CREDITS == 2
CHAR_SELECT == 3
NAME_SELECT == 4
NEXT_PAGE == 5
Screens == {TITLE, SETTINGS, CREDITS, CHAR_SELECT, NAME_SELECT, NEXT_PAGE}

\* len(CHARS)
NumChars == 3
\* the two moduli of the focus arithmetic
TitleItems == 3
SettingsItems == 2
\* the length limit of typed_name
MaxNameLen == 16

\* the float literals of the program
Zero == Literal(0, 1)
One == Literal(1, 1)
SliderStep == Literal(5, 100)
VolInit == Literal(7, 10)
BriInit == Literal(6, 10)

(***************************************************************************)
(* Events.  A key event carries the key and the text it produces           *)
(* (event.unicode): the empty string for a key that produces none.         *)
(***************************************************************************)
K_BACKSPACE == 8
K_SPACE == 32
K_a == 97
K_d == 100
K_s == 115
K_w == 119

\* the keyboard: each key with the text a press of it produces.  Besides
\* the keys the program names: a, b and c pressed with shift held ("A", "B",
\* "C"), return (13, a control character) and left shift (no text)
Keyboard ==
    { <<K_w, <<119>>>>, <<K_a, <<97>>>>, <<K_s, <<115>>>>, <<K_d, <<100>>>>,
      <<K_SPACE, <<32>>>>, <<K_BACKSPACE, <<8>>>>, <<13, <<13>>>>,
      <<K_a, <<65>>>>, <<98, <<66>>>>, <<99, <<67>>>>, <<1073742049, <<>>>> }

KeyDowns == { [type |-> "KEYDOWN", key |-> k[1], unicode |-> k[2]] : k \in Keyboard }
KeyUps == { [type |-> "KEYUP", key |-> k[1], unicode |-> k[2]] : k \in Keyboard }
QuitEvent == [type |-> "QUIT", key |-> 0, unicode |-> <<>>]
MouseEvent == [type |-> "MOUSEMOTION", key |-> 0, unicode |-> <<>>]
Events == KeyDowns \cup KeyUps \cup {QuitEvent, MouseEvent}

\* str.isprintable() on the characters the keyboard produces (ASCII): true
\* of the empty string, false of a control character
IsPrintable(ch) == \A i \in 1..Len(ch) : ch[i] \in 32..126

(***************************************************************************)
(* The state                                                               *)
(***************************************************************************)
VARIABLES
    state,                  \* main's local: the current screen
    title_focus_index,      \* global
    settings_focus_index,   \* global
    vol_slider,             \* global Slider, its field value
    bri_slider,             \* global Slider, its field value
    selected_char,          \* global
    typed_name,             \* global
    running,                \* main's local
    pc,                     \* where main is: "get", "events", "done"
    pending,                \* events of this tick's batch not yet handled
    drawn,                  \* the screen of the last frame drawn, -1 before the first
    session                 \* the kind of input script: "menu" or "game"

ui_vars == <<state, title_focus_index, settings_focus_index, vol_slider,
             bri_slider, selected_char, typed_name>>
vars == <<state, title_focus_index, settings_focus_index, vol_slider,
          bri_slider, selected_char, typed_name, running, pc, pending, drawn,
          session>>

\* the screen and the globals, as one record
UI == [state |-> state,
       title_focus_index |-> title_focus_index,
       settings_focus_index |-> settings_focus_index,
       vol_slider |-> vol_slider,
       bri_slider |-> bri_slider,
       selected_char |-> selected_char,
       typed_name |-> typed_name]

(***************************************************************************)
(* Slider.adjust and the KEYDOWN branch of main, screen by screen, as      *)
(* functions from the state u before the event to the state after it      *)
(***************************************************************************)
\* as Slider_adjust, the sum left unclamped
Slider_adjust_Unclamped(value, delta) == FloatAdd(value, delta)

\* Slider.adjust: the new self.value
Slider_adjust(value, delta) == PyMax(Zero, PyMin(One, FloatAdd(value, delta)))

\* as DropLast, the first character removed instead of the last
DropLast_First(name) == IF Len(name) = 0 THEN name ELSE SubSeq(name, 2, Len(name))

\* typed_name[:-1]
DropLast(name) == IF Len(name) = 0 THEN name ELSE SubSeq(name, 1, Len(name) - 1)

\* as TitleKey, the focus index stepped without the modulo
TitleKey_NoWrap(u, e) ==
    LET delta == IF e.key \in {K_a, K_w} THEN -1 ELSE 1
        u1 == IF e.key \in {K_w, K_s, K_a, K_d}
              THEN [u EXCEPT !.title_focus_index = u.title_focus_index + delta]
              ELSE u
    IN  IF e.key = K_SPACE
        THEN IF u1.title_focus_index = 0 THEN [u1 EXCEPT !.state = CHAR_SELECT]
             ELSE IF u1.title_focus_index = 1 THEN [u1 EXCEPT !.state = CREDITS]
             ELSE IF u1.title_focus_index = 2 THEN [u1 EXCEPT !.state = SETTINGS]
             ELSE u1
        ELSE u1

\* as TitleKey, only K_a stepping backward (K_w steps forward)
TitleKey_UpForward(u, e) ==
    LET delta == IF e.key = K_a THEN -1 ELSE 1
        u1 == IF e.key \in {K_w, K_s, K_a, K_d}
              THEN [u EXCEPT !.title_focus_index =
                               (u.title_focus_index + delta) % TitleItems]
              ELSE u
    IN  IF e.key = K_SPACE
        THEN IF u1.title_focus_index = 0 THEN [u1 EXCEPT !.state = CHAR_SELECT]
             ELSE IF u1.title_focus_index = 1 THEN [u1 EXCEPT !.state = CREDITS]
             ELSE IF u1.title_focus_index = 2 THEN [u1 EXCEPT !.state = SETTINGS]
             ELSE u1
        ELSE u1

\* as TitleKey, the targets of CREDITS and SETTINGS exchanged
TitleKey_Swapped(u, e) ==
    LET delta == IF e.key \in {K_a, K_w} THEN -1 ELSE 1
        u1 == IF e.key \in {K_w, K_s, K_a, K_d}
              THEN [u EXCEPT !.title_focus_index =
                               (u.title_focus_index + delta) % TitleItems]
              ELSE u
    IN  IF e.key = K_SPACE
        THEN IF u1.title_focus_index = 0 THEN [u1 EXCEPT !.state = CHAR_SELECT]
             ELSE IF u1.title_focus_index = 1 THEN [u1 EXCEPT !.state = SETTINGS]
             ELSE IF u1.title_focus_index = 2 THEN [u1 EXCEPT !.state = CREDITS]
             ELSE u1
        ELSE u1

TitleKey(u, e) ==
    LET delta == IF e.key \in {K_a, K_w} THEN -1 ELSE 1
        u1 == IF e.key \in {K_w, K_s, K_a, K_d}
              THEN [u EXCEPT !.title_focus_index =
                               (u.title_focus_index + delta) % TitleItems]
              ELSE u
    IN  IF e.key = K_SPACE
        THEN IF u1.title_focus_index = 0 THEN [u1 EXCEPT !.state = CHAR_SELECT]
             ELSE IF u1.title_focus_index = 1 THEN [u1 EXCEPT !.state = CREDITS]
             ELSE IF u1.title_focus_index = 2 THEN [u1 EXCEPT !.state = SETTINGS]
             ELSE u1
        ELSE u1

\* as SettingsKey, the settings focus reset when the screen is left
SettingsKey_ResetOnLeave(u, e) ==
    LET u1 == IF e.key \in {K_w, K_s}
              THEN [u EXCEPT !.settings_focus_index =
                      (u.settings_focus_index + (IF e.key = K_w THEN -1 ELSE 1))
                          % SettingsItems]
              ELSE u
        delta == IF e.key = K_a THEN FloatNeg(SliderStep) ELSE SliderStep
        u2 == IF e.key \in {K_a, K_d}
              THEN IF u1.settings_focus_index = 0
                   THEN [u1 EXCEPT !.vol_slider = Slider_adjust(u1.vol_slider, delta)]
                   ELSE [u1 EXCEPT !.bri_slider = Slider_adjust(u1.bri_slider, delta)]
              ELSE u1
    IN  IF e.key = K_SPACE
        THEN [u2 EXCEPT !.state = TITLE, !.settings_focus_index = 0]
        ELSE u2

\* as SettingsKey, the settings focus clamped at its ends, not wrapped
SettingsKey_Clamp(u, e) ==
    LET step == u.settings_focus_index + (IF e.key = K_w THEN -1 ELSE 1)
        u1 == IF e.key \in {K_w, K_s}
              THEN [u EXCEPT !.settings_focus_index =
                      IF step < 0 THEN 0
                      ELSE IF step > SettingsItems - 1 THEN SettingsItems - 1
                      ELSE step]
              ELSE u
        delta == IF e.key = K_a THEN FloatNeg(SliderStep) ELSE SliderStep
        u2 == IF e.key \in {K_a, K_d}
              THEN IF u1.settings_focus_index = 0
                   THEN [u1 EXCEPT !.vol_slider = Slider_adjust(u1.vol_slider, delta)]
                   ELSE [u1 EXCEPT !.bri_slider = Slider_adjust(u1.bri_slider, delta)]
              ELSE u1
    IN  IF e.key = K_SPACE THEN [u2 EXCEPT !.state = TITLE] ELSE u2

SettingsKey(u, e) ==
    LET u1 == IF e.key \in {K_w, K_s}
              THEN [u EXCEPT !.settings_focus_index =
                      (u.settings_focus_index + (IF e.key = K_w THEN -1 ELSE 1))
                          % SettingsItems]
              ELSE u
        delta == IF e.key = K_a THEN FloatNeg(SliderStep) ELSE SliderStep
        u2 == IF e.key \in {K_a, K_d}
              THEN IF u1.settings_focus_index = 0
                   THEN [u1 EXCEPT !.vol_slider = Slider_adjust(u1.vol_slider, delta)]
                   ELSE [u1 EXCEPT !.bri_slider = Slider_adjust(u1.bri_slider, delta)]
              ELSE u1
    IN  IF e.key = K_SPACE THEN [u2 EXCEPT !.state = TITLE] ELSE u2

\* as CreditsKey, the title focus reset on the way back
CreditsKey_ResetsFocus(u, e) ==
    IF e.key = K_SPACE
    THEN [u EXCEPT !.state = TITLE, !.title_focus_index = 0]
    ELSE u

CreditsKey(u, e) ==
    IF e.key = K_SPACE THEN [u EXCEPT !.state = TITLE] ELSE u

\* as CharSelectKey, the K_a step taken without the modulo
CharSelectKey_NoWrap(u, e) ==
    LET u1 == IF e.key = K_a
              THEN [u EXCEPT !.selected_char = u.selected_char - 1]
              ELSE u
        u2 == IF e.key = K_d
              THEN [u1 EXCEPT !.selected_char = (u1.selected_char + 1) % NumChars]
              ELSE u1
    IN  IF e.key = K_SPACE THEN [u2 EXCEPT !.state = NAME_SELECT] ELSE u2

\* as CharSelectKey, K_BACKSPACE leading back to the title screen
CharSelectKey_Back(u, e) ==
    LET u1 == IF e.key = K_a
              THEN [u EXCEPT !.selected_char = (u.selected_char - 1) % NumChars]
              ELSE u
        u2 == IF e.key = K_d
              THEN [u1 EXCEPT !.selected_char = (u1.selected_char + 1) % NumChars]
              ELSE u1
    IN  IF e.key = K_SPACE THEN [u2 EXCEPT !.state = NAME_SELECT]
        ELSE IF e.key = K_BACKSPACE THEN [u2 EXCEPT !.state = TITLE]
        ELSE u2

CharSelectKey(u, e) ==
    LET u1 == IF e.key = K_a
              THEN [u EXCEPT !.selected_char = (u.selected_char - 1) % NumChars]
              ELSE u
        u2 == IF e.key = K_d
              THEN [u1 EXCEPT !.selected_char = (u1.selected_char + 1) % NumChars]
              ELSE u1
    IN  IF e.key = K_SPACE THEN [u2 EXCEPT !.state = NAME_SELECT] ELSE u2

\* as NameSelectKey, the length test off by one (<= for <)
NameSelectKey_OffByOne(u, e) ==
    IF e.key = K_SPACE THEN [u EXCEPT !.state = NEXT_PAGE]
    ELSE IF e.key = K_BACKSPACE
         THEN [u EXCEPT !.typed_name = DropLast(u.typed_name)]
         ELSE LET ch == e.unicode
              IN  IF IsPrintable(ch) /\ ch # <<>>
                  THEN IF Len(u.typed_name) <= MaxNameLen
                       THEN [u EXCEPT !.typed_name = u.typed_name \o ch]
                       ELSE u
                  ELSE u

\* as NameSelectKey, K_SPACE refused while the name is empty
NameSelectKey_NeedsName(u, e) ==
    IF e.key = K_SPACE
    THEN IF u.typed_name = <<>> THEN u ELSE [u EXCEPT !.state = NEXT_PAGE]
    ELSE IF e.key = K_BACKSPACE
         THEN [u EXCEPT !.typed_name = DropLast(u.typed_name)]
         ELSE LET ch == e.unicode
              IN  IF IsPrintable(ch) /\ ch # <<>>
                  THEN IF Len(u.typed_name) < MaxNameLen
                       THEN [u EXCEPT !.typed_name = u.typed_name \o ch]
                       ELSE u
                  ELSE u

\* as NameSelectKey, K_a and K_d switching the character as on CHAR_SELECT
NameSelectKey_Navigates(u, e) ==
    IF e.key = K_SPACE THEN [u EXCEPT !.state = NEXT_PAGE]
    ELSE IF e.key = K_a
         THEN [u EXCEPT !.selected_char = (u.selected_char - 1) % NumChars]
    ELSE IF e.key = K_d
         THEN [u EXCEPT !.selected_char = (u.selected_char + 1) % NumChars]
    ELSE IF e.key = K_BACKSPACE
         THEN [u EXCEPT !.typed_name = DropLast(u.typed_name)]
         ELSE LET ch == e.unicode
              IN  IF IsPrintable(ch) /\ ch # <<>>
                  THEN IF Len(u.typed_name) < MaxNameLen
                       THEN [u EXCEPT !.typed_name = u.typed_name \o ch]
                       ELSE u
                  ELSE u

\* as NameSelectKey, the K_SPACE test made after the text was appended
NameSelectKey_SpaceTyped(u, e) ==
    LET ch == e.unicode
        u1 == IF e.key = K_BACKSPACE
              THEN [u EXCEPT !.typed_name = DropLast(u.typed_name)]
              ELSE IF IsPrintable(ch) /\ ch # <<>> /\ Len(u.typed_name) < MaxNameLen
                   THEN [u EXCEPT !.typed_name = u.typed_name \o ch]
                   ELSE u
    IN  IF e.key = K_SPACE THEN [u1 EXCEPT !.state = NEXT_PAGE] ELSE u1

NameSelectKey(u, e) ==
    IF e.key = K_SPACE THEN [u EXCEPT !.state = NEXT_PAGE]
    ELSE IF e.key = K_BACKSPACE
         THEN [u EXCEPT !.typed_name = DropLast(u.typed_name)]
         ELSE LET ch == e.unicode
              IN  IF IsPrintable(ch) /\ ch # <<>>
                  THEN IF Len(u.typed_name) < MaxNameLen
                       THEN [u EXCEPT !.typed_name = u.typed_name \o ch]
                       ELSE u
                  ELSE u

\* as NextPageKey, K_SPACE leading back to the title screen
NextPageKey_Back(u, e) ==
    IF e.key = K_SPACE THEN [u EXCEPT !.state = TITLE] ELSE u

\* no branch of main tests state == NEXT_PAGE
NextPageKey(u, e) == u

\* as OnKeyDown, the screens tested by a row of `if`s, not by if/elif
OnKeyDown_FallThrough(u, e) ==
    LET u1 == IF u.state = TITLE THEN TitleKey(u, e) ELSE u
        u2 == IF u1.state = SETTINGS THEN SettingsKey(u1, e) ELSE u1
        u3 == IF u2.state = CREDITS THEN CreditsKey(u2, e) ELSE u2
        u4 == IF u3.state = CHAR_SELECT THEN CharSelectKey(u3, e) ELSE u3
        u5 == IF u4.state = NAME_SELECT THEN NameSelectKey(u4, e) ELSE u4
    IN  u5

\* the whole `if event.type == pygame.KEYDOWN:` block
OnKeyDown(u, e) ==
    IF u.state = TITLE THEN TitleKey(u, e)
    ELSE IF u.state = SETTINGS THEN SettingsKey(u, e)
    ELSE IF u.state = CREDITS THEN CreditsKey(u, e)
    ELSE IF u.state = CHAR_SELECT THEN CharSelectKey(u, e)
    ELSE IF u.state = NAME_SELECT THEN NameSelectKey(u, e)
    ELSE NextPageKey(u, e)

\* as OnEvent, a key release handled like a key press
OnEvent_AnyKey(u, e) ==
    IF e.type \in {"KEYDOWN", "KEYUP"} THEN OnKeyDown(u, e) ELSE u

\* the globals and state after the body of the for loop has run on event e
\* (the QUIT test assigns running only)
OnEvent(u, e) ==
    IF e.type = "KEYDOWN" THEN OnKeyDown(u, e) ELSE u

(***************************************************************************)
(* The input script.  The model checks two kinds of session, fixed at the  *)
(* start: in a "menu" session the player never confirms START, and plays   *)
(* with the title, settings and credits screens without limit; in a "game" *)
(* session the player leaves the sliders alone and, in the name box, types *)
(* any text at the first MaxFree positions and the filler "a" after them.  *)
(***************************************************************************)
Sessions == {"menu", "game"}
Filler == <<97>>

Offered(e) ==
    e.type = "KEYDOWN" =>
        /\ session = "menu" =>
               ~(state = TITLE /\ title_focus_index = 0 /\ e.key = K_SPACE)
        /\ session = "game" =>
               /\ ~(state = SETTINGS /\ e.key \in {K_a, K_d})
               /\ (/\ state = NAME_SELECT
                   /\ Len(typed_name) >= MaxFree
                   /\ e.key \notin {K_SPACE, K_BACKSPACE}
                   /\ IsPrintable(e.unicode) /\ e.unicode # <<>>)
                  => e.unicode = Filler

(***************************************************************************)
(* main                                                                    *)
(***************************************************************************)
Init ==
    /\ state = TITLE
    /\ title_focus_index = 0
    /\ settings_focus_index = 0
    /\ vol_slider = VolInit
    /\ bri_slider = BriInit
    /\ selected_char = 0
    /\ typed_name = <<>>
    /\ running = TRUE
    /\ pc = "get"
    /\ pending = 0
    /\ drawn = -1
    /\ session \in Sessions

\* the assignments of one handled event
Becomes(n) ==
    /\ state' = n.state
    /\ title_focus_index' = n.title_focus_index
    /\ settings_focus_index' = n.settings_focus_index
    /\ vol_slider' = n.vol_slider
    /\ bri_slider' = n.bri_slider
    /\ selected_char' = n.selected_char
    /\ typed_name' = n.typed_name

\* the loop takes the next event of the batch
Take ==
    /\ pc = "events"
    /\ pending > 0
    /\ pending' = pending - 1
    /\ pc' = pc
    /\ drawn' = drawn
    /\ session' = session

\* while running: clock.tick(60); pygame.event.get() returns the batch
GetEvents ==
    /\ pc = "get"
    /\ \E n \in 0..MaxQueue : pending' = n
    /\ pc' = "events"
    /\ UNCHANGED <<ui_vars, running, drawn, session>>

\* event.type == pygame.QUIT
Quit ==
    /\ Take
    /\ running' = FALSE
    /\ UNCHANGED ui_vars

\* an event that is neither QUIT nor KEYDOWN
OtherEvent ==
    /\ Take
    /\ \E e \in Events : e.type \notin {"QUIT", "KEYDOWN"} /\ Becomes(OnEvent(UI, e))
    /\ UNCHANGED running

\* a KEYDOWN event e is handled
KeyDown(e) ==
    /\ Take
    /\ Offered(e)
    /\ Becomes(OnEvent(UI, e))
    /\ UNCHANGED running

TitleKeyDown ==
    /\ state = TITLE
    /\ \E e \in KeyDowns : KeyDown(e)

SettingsKeyDown ==
    /\ state = SETTINGS
    /\ \E e \in KeyDowns : KeyDown(e)

CreditsKeyDown ==
    /\ state = CREDITS
    /\ \E e \in KeyDowns : KeyDown(e)

CharSelectKeyDown ==
    /\ state = CHAR_SELECT
    /\ \E e \in KeyDowns : KeyDown(e)

NameSelectKeyDown ==
    /\ state = NAME_SELECT
    /\ \E e \in KeyDowns : KeyDown(e)

NextPageKeyDown ==
    /\ state = NEXT_PAGE
    /\ \E e \in KeyDowns : KeyDown(e)

\* as Render, the loop condition not tested: the loop always goes on
Render_LoopsOn ==
    /\ pc = "events"
    /\ pending = 0
    /\ drawn' = state
    /\ pc' = "get"
    /\ UNCHANGED <<ui_vars, running, pending, session>>

\* as Render, the frame drawn inside the for loop, after each event
Render_PerEvent ==
    /\ pc = "events"
    /\ drawn' = state
    /\ pc' = IF pending > 0 THEN pc ELSE IF running THEN "get" ELSE "done"
    /\ UNCHANGED <<ui_vars, running, pending, session>>

\* the batch is exhausted: the frame is drawn from the state (the draw_*
\* functions assign no global), then the loop condition is tested
Render ==
    /\ pc = "events"
    /\ pending = 0
    /\ drawn' = state
    /\ pc' = IF running THEN "get" ELSE "done"
    /\ UNCHANGED <<ui_vars, running, pending, session>>

Next ==
    \/ GetEvents
    \/ Quit
    \/ OtherEvent
    \/ TitleKeyDown
    \/ SettingsKeyDown
    \/ CreditsKeyDown
    \/ CharSelectKeyDown
    \/ NameSelectKeyDown
    \/ NextPageKeyDown
    \/ Render

Spec == Init /\ [][Next]_vars

TypeOK ==
    /\ state \in Screens
    /\ pc \in {"get", "events", "done"}
    /\ pending \in 0..MaxQueue
    /\ running \in BOOLEAN
    /\ drawn \in Screens \cup {-1}

(***************************************************************************)
(* Vocabulary of the properties                                            *)
(***************************************************************************)
\* the KEYDOWN events of key k, whatever text they carry
Press(k) == { e \in KeyDowns : e.key = k }
Confirm == Press(K_SPACE)
Up == Press(K_w)
Down == Press(K_s)
Left == Press(K_a)
Right == Press(K_d)
Backspace == Press(K_BACKSPACE)
\* the key presses that carry a printable character and are neither Confirm
\* nor Backspace
Typing == { e \in KeyDowns : /\ e.key \notin {K_SPACE, K_BACKSPACE}
                             /\ e.unicode # <<>>
                             /\ IsPrintable(e.unicode) }

\* 0.0 <= v <= 1.0
InUnitRange(v) == ~FloatLess(v, Zero) /\ ~FloatLess(One, v)

\* the frame is about to be drawn from the state
AtRender == pc = "events" /\ pending = 0

\* C1: in every reachable state the title focus index is in 0..2, the
\* settings focus index in 0..1, the selected character in 0..2 and the
\* screen one of the six screens.
C1_IndicesInRange ==
    /\ title_focus_index \in 0..2
    /\ settings_focus_index \in 0..1
    /\ selected_char \in 0..2
    /\ selected_char < NumChars
    /\ state \in {TITLE, SETTINGS, CREDITS, CHAR_SELECT, NAME_SELECT, NEXT_PAGE}

\* C1 witness: a frame is drawn after the settings focus and the selected
\* character have both been moved to their last value.
C1_Witness ==
    /\ AtRender
    /\ state = NAME_SELECT
    /\ selected_char = 2
    /\ settings_focus_index = 1

\* C2: both slider values are always within [0.0, 1.0]; on Settings a Right
\* press on the focused slider at 1.0 leaves it at 1.0 and a Left press on
\* the focused slider at 0.0 leaves it at 0.0.
C2_SlidersClamped ==
    /\ InUnitRange(vol_slider)
    /\ InUnitRange(bri_slider)
    /\ state = SETTINGS =>
         /\ \A e \in Right :
              /\ (settings_focus_index = 0 /\ vol_slider = One)
                    => OnKeyDown(UI, e).vol_slider = One
              /\ (settings_focus_index = 1 /\ bri_slider = One)
                    => OnKeyDown(UI, e).bri_slider = One
         /\ \A e \in Left :
              /\ (settings_focus_index = 0 /\ vol_slider = Zero)
                    => OnKeyDown(UI, e).vol_slider = Zero
              /\ (settings_focus_index = 1 /\ bri_slider = Zero)
                    => OnKeyDown(UI, e).bri_slider = Zero

\* C2 witness: on Settings the volume has been driven up to 1.0 and the
\* brightness down to 0.0, with the volume focused.
C2_Witness ==
    /\ state = SETTINGS
    /\ settings_focus_index = 0
    /\ vol_slider = One
    /\ bri_slider = Zero

\* C3: the typed name never exceeds 16 characters; on NameEntry a typing
\* key appends its character at the end when the length is below 16 and
\* changes nothing at all when the length is 16.
C3_NameBounded ==
    /\ Len(typed_name) <= 16
    /\ state = NAME_SELECT =>
         \A e \in Typing :
            IF Len(typed_name) < 16
            THEN OnKeyDown(UI, e) = [UI EXCEPT !.typed_name = Append(typed_name, e.unicode[1])]
            ELSE OnKeyDown(UI, e) = UI

\* C3 witness: the name box is full.
C3_Witness ==
    /\ state = NAME_SELECT
    /\ Len(typed_name) = 16

\* the screen START, CREDITS and the settings icon lead to
TitleTarget(focus) ==
    IF focus = 0 THEN CHAR_SELECT ELSE IF focus = 1 THEN CREDITS ELSE SETTINGS

\* C4: on Title a Confirm press moves to the screen the title focus names
\* (0 CharacterSelect, 1 Credits, 2 Settings) and changes nothing else; the
\* initial state is one of these states, with focus 0.
C4_TitleConfirm ==
    state = TITLE =>
        \A e \in Confirm :
            OnKeyDown(UI, e) = [UI EXCEPT !.state = TitleTarget(title_focus_index)]

\* C4 witness: Credits is drawn, entered by Confirm with the focus on CREDITS.
C4_Witness ==
    /\ AtRender
    /\ state = CREDITS
    /\ title_focus_index = 1

\* index i moved one place backward / forward around n places
Before(i, n) == IF i = 0 THEN n - 1 ELSE i - 1
After(i, n) == IF i = n - 1 THEN 0 ELSE i + 1

\* C5: on Title, Up or Left moves the focus one place backward and Down or
\* Right one place forward around the 3 items, the screen staying Title and
\* nothing else changing; three Left presses from focus 0 give 2, 1, 0.
C5_TitleFocus ==
    state = TITLE =>
        /\ \A e \in Up \cup Left :
              OnKeyDown(UI, e) =
                  [UI EXCEPT !.title_focus_index = Before(title_focus_index, 3)]
        /\ \A e \in Down \cup Right :
              OnKeyDown(UI, e) =
                  [UI EXCEPT !.title_focus_index = After(title_focus_index, 3)]
        /\ title_focus_index = 0 =>
              \A e1, e2, e3 \in Left :
                  LET a == OnKeyDown(UI, e1)
                      b == OnKeyDown(a, e2)
                      c == OnKeyDown(b, e3)
                  IN  /\ a.title_focus_index = 2
                      /\ b.title_focus_index = 1
                      /\ c.title_focus_index = 0
                      /\ c = UI

\* C5 witness: Title with the focus on the last item.
C5_Witness ==
    /\ state = TITLE
    /\ title_focus_index = 2

\* the floats k/20, k = 0..20: what a slider holds after steps of exactly
\* 0.05 from 0.7 or 0.6
Grid == [k \in 0..20 |-> Literal(k, 20)]
OnGrid(v) == \E k \in 0..20 : v = Grid[k]
GridIndex(v) == CHOOSE k \in 0..20 : v = Grid[k]

\* a change of slider value v to w is one step of 0.05 up or down
OneStep(v, w) ==
    /\ OnGrid(v)
    /\ \/ GridIndex(v) < 20 /\ w = Grid[GridIndex(v) + 1]
       \/ GridIndex(v) > 0 /\ w = Grid[GridIndex(v) - 1]

\* C6: on Settings a Left or Right press changes only the focused slider, by
\* exactly one step of 0.05 (0.7 -> 0.75 -> 0.7 -> 0.65 -> 0.6), the other
\* slider, the settings focus and the screen staying as they were.
C6_SliderStepExact ==
    [][/\ vol_slider' # vol_slider =>
            /\ state = SETTINGS /\ settings_focus_index = 0
            /\ OneStep(vol_slider, vol_slider')
            /\ UNCHANGED <<bri_slider, settings_focus_index, state>>
       /\ bri_slider' # bri_slider =>
            /\ state = SETTINGS /\ settings_focus_index = 1
            /\ OneStep(bri_slider, bri_slider')
            /\ UNCHANGED <<vol_slider, settings_focus_index, state>>]_vars

\* C7: on Settings the title focus is 2 and a Confirm press returns to Title
\* changing nothing else; off Settings the settings focus and the sliders
\* never change, so a later visit finds what the last one left.
C7_SettingsPersist ==
    [][/\ state = SETTINGS =>
            /\ title_focus_index = 2
            /\ \A e \in Confirm : OnKeyDown(UI, e) = [UI EXCEPT !.state = TITLE]
       /\ (state = SETTINGS /\ state' # SETTINGS) =>
            /\ state' = TITLE
            /\ UNCHANGED <<title_focus_index, settings_focus_index,
                           vol_slider, bri_slider>>
       /\ state # SETTINGS =>
            UNCHANGED <<settings_focus_index, vol_slider, bri_slider>>]_vars

\* C7 witness: back on Title from Settings, with the focus and a slider
\* changed during the visit.
C7_Witness ==
    /\ state = TITLE
    /\ title_focus_index = 2
    /\ settings_focus_index = 1
    /\ bri_slider # BriInit

\* C8: on CharacterSelect, Left moves the selection one place backward and
\* Right one place forward around the 3 characters, the screen staying; a
\* Confirm press moves to NameEntry; nothing else changes.
C8_CharSelect ==
    state = CHAR_SELECT =>
        /\ \A e \in Left :
              OnKeyDown(UI, e) = [UI EXCEPT !.selected_char = Before(selected_char, 3)]
        /\ \A e \in Right :
              OnKeyDown(UI, e) = [UI EXCEPT !.selected_char = After(selected_char, 3)]
        /\ \A e \in Confirm :
              OnKeyDown(UI, e) = [UI EXCEPT !.state = NAME_SELECT]

\* C8 witness: NameEntry entered with the last character selected.
C8_Witness ==
    /\ state = NAME_SELECT
    /\ selected_char = 2
    /\ typed_name = <<>>

\* the key presses that carry the one character c
Types(c) == { e \in KeyDowns : e.unicode = <<c>> }

\* C9: on NameEntry, Backspace removes exactly the last character of a
\* non-empty name and leaves an empty name empty, never changing the screen
\* or anything else; from the empty name 'A', 'B', Backspace, 'C' give "AC".
C9_Backspace ==
    state = NAME_SELECT =>
        /\ \A e \in Backspace :
              LET n == OnKeyDown(UI, e)
              IN  IF typed_name = <<>> THEN n = UI
                  ELSE /\ n = [UI EXCEPT !.typed_name = n.typed_name]
                       /\ Append(n.typed_name, typed_name[Len(typed_name)])
                            = typed_name
        /\ typed_name = <<>> =>
              \A a \in Types(65), b \in Types(66), c \in Types(67), bs \in Backspace :
                  OnKeyDown(OnKeyDown(OnKeyDown(OnKeyDown(UI, a), b), bs), c)
                      = [UI EXCEPT !.typed_name = <<65, 67>>]

\* C9 witness: the name box holds "AC".
C9_Witness ==
    /\ state = NAME_SELECT
    /\ typed_name = <<65, 67>>

\* C10: on NameEntry a Confirm press moves to Placeholder whatever the name
\* holds, the empty name included, and changes nothing else.
C10_NameConfirm ==
    state = NAME_SELECT =>
        \A e \in Confirm : OnKeyDown(UI, e) = [UI EXCEPT !.state = NEXT_PAGE]

\* C10 witness: Placeholder is drawn, entered with the empty name.
C10_Witness ==
    /\ AtRender
    /\ state = NEXT_PAGE
    /\ typed_name = <<>>

\* C11: Placeholder is absorbing: on it every key press is a no-op, and
\* every step taken from it leaves the screen and every field of the state
\* (focus indices, sliders, selected character, name) as they were.
C11_PlaceholderAbsorbing ==
    [][state = NEXT_PAGE =>
          /\ UNCHANGED ui_vars
          /\ \A e \in KeyDowns : OnEvent(UI, e) = UI]_vars

\* C11 witness: Placeholder has been drawn and events still arrive on it.
C11_Witness ==
    /\ state = NEXT_PAGE
    /\ drawn = NEXT_PAGE
    /\ pc = "events"
    /\ pending = 1
    /\ typed_name # <<>>

\* the typing keys that are not directional
OtherTyping == { e \in Typing : e.key \notin {K_w, K_a, K_s, K_d} }

\* C12: a key outside the current screen's table changes nothing: on
\* Credits every key but Confirm; on Title and Settings Backspace and the
\* non-directional typing keys; on CharacterSelect Up, Down, Backspace and
\* the non-directional typing keys; on every screen any key release.
C12_UnrecognizedNoOp ==
    /\ state = CREDITS =>
          \A e \in KeyDowns \ Confirm : OnEvent(UI, e) = UI
    /\ state \in {TITLE, SETTINGS} =>
          \A e \in Backspace \cup OtherTyping : OnEvent(UI, e) = UI
    /\ state = CHAR_SELECT =>
          \A e \in Up \cup Down \cup Backspace \cup OtherTyping : OnEvent(UI, e) = UI
    /\ \A e \in KeyUps : OnEvent(UI, e) = UI

\* C12 witness: CharacterSelect stays drawn over a whole tick, with a
\* selection made.
C12_Witness ==
    /\ state = CHAR_SELECT
    /\ drawn = CHAR_SELECT
    /\ selected_char = 1
    /\ pc = "get"

\* C13: the title focus changes only on Title, the settings focus and the
\* two sliders only on Settings, the selected character only on
\* CharacterSelect and the name only on NameEntry.
C13_FieldsOwned ==
    [][/\ title_focus_index' # title_focus_index => state = TITLE
       /\ settings_focus_index' # settings_focus_index => state = SETTINGS
       /\ vol_slider' # vol_slider => state = SETTINGS
       /\ bri_slider' # bri_slider => state = SETTINGS
       /\ selected_char' # selected_char => state = CHAR_SELECT
       /\ typed_name' # typed_name => state = NAME_SELECT]_vars

\* C13 witness: the settings focus, the selected character and the name have
\* each been changed, on their own screens.
C13_Witness ==
    /\ state = NAME_SELECT
    /\ settings_focus_index = 1
    /\ selected_char = 1
    /\ typed_name = <<119>>

\* a step that draws a frame: it leaves the event loop or changes the
\* screen shown
FrameStep == (pc = "events" /\ pc' # "events") \/ drawn' # drawn

\* C14: a frame is drawn only when no event of the tick is still pending,
\* it shows the screen current after the last event of the tick, and drawing
\* it changes no field of the state; between a frame and the next batch
\* the screen shown is the current screen.
C14_RenderAfterEvents ==
    [][/\ FrameStep =>
            /\ pending = 0
            /\ drawn' = state
            /\ UNCHANGED ui_vars
       /\ (pc = "get" /\ drawn # -1) => drawn = state]_vars

\* C14 witness: a batch of events that changed the screen has been applied
\* in full and the frame is about to be drawn.
C14_Witness ==
    /\ AtRender
    /\ drawn = TITLE
    /\ state = NAME_SELECT

\* C16 as claimed: once the quit signal has been handled, no key press is
\* applied to the state and no further frame is drawn.
C16_QuitImmediate ==
    [][~running => (UNCHANGED ui_vars /\ ~FrameStep)]_vars

\* C16 as amended: once the quit signal has been handled the loop never
\* fetches another batch: running stays false, the events left in the batch
\* are taken one by one, then one last frame is drawn from the state they
\* left and the loop ends.
C16_QuitEndsAtTick ==
    [][~running =>
          /\ ~running'
          /\ pc = "events"
          /\ IF pending > 0
             THEN pc' = "events" /\ pending' = pending - 1 /\ drawn' = drawn
             ELSE pc' = "done" /\ drawn' = state /\ UNCHANGED ui_vars]_vars

\* C16 witness: the quit signal has been handled with an event still queued
\* behind it in the same batch.
C16_Witness ==
    /\ ~running
    /\ pc = "events"
    /\ pending > 0

\* C15: a step forward then a step backward, or backward then forward,
\* restores the index: on Title Down then Up (and Up then Down) restores the
\* title focus, on Settings the settings focus, and on CharacterSelect Right
\* then Left (and Left then Right) the selected character, wraparound
\* included; nothing else changes.
C15_StepInvertible ==
    /\ state \in {TITLE, SETTINGS} =>
          \A d \in Down, u \in Up :
              /\ OnEvent(OnEvent(UI, d), u) = UI
              /\ OnEvent(OnEvent(UI, u), d) = UI
    /\ state = CHAR_SELECT =>
          \A r \in Right, l \in Left :
              /\ OnEvent(OnEvent(UI, r), l) = UI
              /\ OnEvent(OnEvent(UI, l), r) = UI

\* C15 witness: Settings with the focus on the last slider, from where a
\* step forward wraps.
C15_Witness ==
    /\ state = SETTINGS
    /\ settings_focus_index = 1
    /\ pc = "get"

\* the edges between screens
Edges ==
    { <<TITLE, CHAR_SELECT>>, <<TITLE, CREDITS>>, <<TITLE, SETTINGS>>,
      <<SETTINGS, TITLE>>, <<CREDITS, TITLE>>,
      <<CHAR_SELECT, NAME_SELECT>>, <<NAME_SELECT, NEXT_PAGE>> }

\* C17: one event changes the screen along at most one edge, only along the
\* seven edges Title->CharacterSelect, Title->Credits, Title->Settings,
\* Settings->Title, Credits->Title, CharacterSelect->NameEntry and
\* NameEntry->Placeholder, and only on a Confirm press: the Confirm that
\* enters a screen is not handled again by the screen it enters.
C17_OneEdgePerConfirm ==
    /\ [][state' # state => <<state, state'>> \in Edges]_vars
    /\ [](/\ \A e \in KeyDowns :
               LET n == OnEvent(UI, e).state
               IN  IF e \in Confirm
                   THEN n = state \/ <<state, n>> \in Edges
                   ELSE n = state
          /\ (state = TITLE /\ title_focus_index = 0) =>
               \A e \in Confirm : OnEvent(UI, e).state = CHAR_SELECT)

\* C17 witness: CharacterSelect has just been entered from the Title frame
\* and the Confirm that entered it went no further.
C17_Witness ==
    /\ state = CHAR_SELECT
    /\ drawn = TITLE

\* the screens from CharacterSelect on
GameScreens == {CHAR_SELECT, NAME_SELECT, NEXT_PAGE}

\* C18: once the screen is CharacterSelect it is never again Title, Settings
\* or Credits, and the title focus, the settings focus and both sliders
\* never change again.
C18_StartIrreversible ==
    [][(state \in GameScreens) =>
          /\ state' \in GameScreens
          /\ title_focus_index' = title_focus_index
          /\ settings_focus_index' = settings_focus_index
          /\ vol_slider' = vol_slider
          /\ bri_slider' = bri_slider]_vars

\* C18 witness: Placeholder reached, with a settings focus chosen before the
\* start still in place.
C18_Witness ==
    /\ state = NEXT_PAGE
    /\ settings_focus_index = 1
    /\ title_focus_index = 0

\* the presses of the four directional keys
Directional == Up \cup Down \cup Left \cup Right

C20_NoSpaceInName ==
    /\ \A i \in 1..Len(typed_name) : typed_name[i] # 32
    /\ \A e \in Confirm :
          /\ IsPrintable(e.unicode) /\ e.unicode = <<32>>
          /\ state = NAME_SELECT =>
                /\ OnEvent(UI, e).typed_name = typed_name
                /\ OnEvent(UI, e).state = NEXT_PAGE
    /\ state # NAME_SELECT =>
          \A e \in KeyDowns : OnEvent(UI, e).typed_name = typed_name

\* C20 witness: Placeholder is drawn, entered by the space key with one
\* character typed.
C20_Witness ==
    /\ AtRender
    /\ state = NEXT_PAGE
    /\ Len(typed_name) = 1

====
